---- MODULE Spec2Model ----
(***************************************************************************)
(* A model of ch0p1n/z.py: pitch motifs, stepwise motion along a scale,    *)
(* pitch-class remapping, voice leading and harmonic completeness.         *)
(*                                                                         *)
(* Python lists are mutable objects, so the model keeps a heap of list     *)
(* objects: the caller's motif, its cluster lists, and the lists a call    *)
(* returns.  The caller also owns a reified scale (argument of _move and   *)
(* _move2) and a pitch-class list (argument of transpose, lead and         *)
(* is_complete); both are Python lists the callee can write to.            *)
(***************************************************************************)
EXTENDS Integers, Sequences, FiniteSets, TLC

VARIABLES
    heap,       \* list objects: object id -> sequence of elements
    scale,      \* the caller's reified scale (a list of pitches)
    harmony,    \* the caller's pitch-class list
    call,       \* the last call: function name and arguments as passed
    ret,        \* what the last call returned or raised
    calls       \* number of calls made so far

vars == <<heap, scale, harmony, call, ret, calls>>

----------------------------------------------------------------------------
(* Values.  An element of a list is a pitch, a rest (Python's None) or a   *)
(* reference to another list object (a cluster).                           *)

None == [k |-> "rest", v |-> 0]
Pitch(p) == [k |-> "pitch", v |-> p]
Ref(id) == [k |-> "list", v |-> id]

\* isinstance(item, list)
IsList(e) == e.k = "list"

\* Object ids.  Motif number n has its top-level list at Obj(n, 0) and the
\* cluster list of slot i at Obj(n, i).  Motif 0 is the caller's motif.
Obj(n, i) == 10 * n + i

\* A slot of a motif written as a value: a single element or a cluster.
S(e) == [k |-> "single", items |-> <<e>>]
C(s) == [k |-> "list", items |-> s]

\* The heap holding motif value mv as motif number 0.
Build(mv) ==
    [id \in {Obj(0, 0)} \cup {Obj(0, i) : i \in {j \in 1..Len(mv) : mv[j].k = "list"}} |->
        IF id = Obj(0, 0)
        THEN [i \in 1..Len(mv) |->
                 IF mv[i].k = "list" THEN Ref(Obj(0, i)) ELSE mv[i].items[1]]
        ELSE mv[id - Obj(0, 0)].items]

\* The structural value of the motif whose top-level list is object id
\* (what Python's == compares).
Value(h, id) ==
    [i \in 1..Len(h[id]) |->
        IF IsList(h[id][i]) THEN C(h[h[id][i].v]) ELSE S(h[id][i])]

\* The slot types and cluster lengths of a motif value (-1 for a single slot).
Shape(mv) == [i \in 1..Len(mv) |-> IF mv[i].k = "list" THEN Len(mv[i].items) ELSE -1]

\* The list objects a motif is made of.
Objects(h, id) == {id} \cup {h[id][i].v : i \in {j \in 1..Len(h[id]) : IsList(h[id][j])}}

\* Objects no longer referenced by the caller or by the returned motifs are
\* garbage.
Collect(h, roots) ==
    LET live == UNION {Objects(h, r) : r \in roots}
    IN  [id \in live |-> h[id]]

\* (a slice that stops one element early)
SliceShort(s, a, b) ==
    LET hi == IF b - 1 < Len(s) THEN b - 1 ELSE Len(s)
    IN  IF a + 1 > hi THEN <<>> ELSE SubSeq(s, a + 1, hi)

\* Python's s[a:b] for 0 <= a <= b: never raises, may come out short.
Slice(s, a, b) ==
    LET hi == IF b < Len(s) THEN b ELSE Len(s)
    IN  IF a + 1 > hi THEN <<>> ELSE SubSeq(s, a + 1, hi)

\* Python's index normalisation for s[i]: the 1-based position, or 0 when
\* s[i] raises IndexError.  Negative indices count from the end.
PyIndex(len, i) ==
    IF i >= 0 THEN (IF i < len THEN i + 1 ELSE 0)
    ELSE (IF i >= -len THEN len + i + 1 ELSE 0)

----------------------------------------------------------------------------
(* What a call returns or raises.                                          *)

Return(kind, motifs, pitches, flag) ==
    [kind |-> kind, motifs |-> motifs, pitches |-> pitches, flag |-> flag]
RetNone == Return("None", <<>>, <<>>, FALSE)
RetMotif(n) == Return("motif", <<n>>, <<>>, FALSE)
RetMotifs(ns) == Return("motifs", ns, <<>>, FALSE)
RetPitch(e) == Return("pitch", <<>>, <<e>>, FALSE)
RetPitches(s) == Return("pitches", <<>>, s, FALSE)
RetBool(b) == Return("bool", <<>>, <<>>, b)
Raise(err) == Return(err, <<>>, <<>>, FALSE)
Errors == {"IndexError", "TypeError", "SyntaxError"}
Raised == ret.kind \in Errors

----------------------------------------------------------------------------
(* copy.deepcopy of a motif: motif number n becomes a copy of the motif    *)
(* whose top-level list is src, sharing no list with it.                   *)

\* (copy.copy instead: a new top-level list holding the same cluster lists)
shallowcopy(h, src, n) ==
    [h |-> (Obj(n, 0) :> h[src]) @@ h, motif |-> Obj(n, 0)]

deepcopy(h, src, n) ==
    LET top == h[src]
        new == [id \in {Obj(n, 0)} \cup {Obj(n, i) : i \in {j \in 1..Len(top) : IsList(top[j])}} |->
                   IF id = Obj(n, 0)
                   THEN [i \in 1..Len(top) |->
                            IF IsList(top[i]) THEN Ref(Obj(n, i)) ELSE top[i]]
                   ELSE h[top[id - Obj(n, 0)].v]]
    IN  [h |-> new @@ h, motif |-> Obj(n, 0)]

----------------------------------------------------------------------------
(* extract and replace pitches                                             *)

RECURSIVE ExtractFrom(_, _, _)
ExtractFrom(h, items, i) ==
    IF i > Len(items) THEN <<>>
    ELSE (IF IsList(items[i]) THEN h[items[i].v] ELSE <<items[i]>>)
             \o ExtractFrom(h, items, i + 1)

_extract(h, id) == ExtractFrom(h, h[id], 1)

\* The loop of _replace over the slots of the list `id`, from slot i on with
\* k pitches consumed.  A cluster slot is assigned a fresh list (a slice);
\* a single slot is assigned pitches[k], which raises IndexError when the
\* pitches have run out.  Slots written before an error stay written.
RECURSIVE ReplaceLoop(_, _, _, _, _)
ReplaceLoop(h, id, pitches, i, k) ==
    IF i > Len(h[id]) THEN [h |-> h, err |-> "ok"]
    ELSE IF IsList(h[id][i])
    THEN LET l == Len(h[h[id][i].v])
             new == id + i
             h2 == [x \in DOMAIN h \cup {new} |->
                       IF x = new THEN Slice(pitches, k, k + l)
                       ELSE IF x = id THEN [h[id] EXCEPT ![i] = Ref(new)]
                       ELSE h[x]]
         IN  ReplaceLoop(h2, id, pitches, i + 1, k + l)
    ELSE IF k >= Len(pitches) THEN [h |-> h, err |-> "IndexError"]
    ELSE ReplaceLoop([h EXCEPT ![id][i] = pitches[k + 1]], id, pitches, i + 1, k + 1)

\* _replace(pitch_motif, pitches, in_place): the heap afterwards, the error
\* raised if any, and the list written to (the copy is motif number n).
_replace(h, src, pitches, in_place, n) ==
    LET c == IF in_place THEN [h |-> h, motif |-> src] ELSE deepcopy(h, src, n)
        r == ReplaceLoop(c.h, c.motif, pitches, 1, 0)
    IN  [h |-> r.h, err |-> r.err, motif |-> c.motif]

----------------------------------------------------------------------------
(* modify and access pitches.  A position is <<i>> (a slot) or <<i, j>>    *)
(* (slot i, cluster index j), with Python's 0-based indices.               *)

_modify(h, src, position, item, in_place, n) ==
    LET c == IF in_place THEN [h |-> h, motif |-> src] ELSE deepcopy(h, src, n)
        top == c.h[c.motif]
        i == PyIndex(Len(top), position[1])
        fail(e) == [h |-> c.h, err |-> e, motif |-> c.motif]
    IN  IF i = 0 THEN fail("IndexError")
        ELSE IF Len(position) = 1
        THEN [h |-> [c.h EXCEPT ![c.motif][i] = item], err |-> "ok", motif |-> c.motif]
        ELSE IF ~IsList(top[i]) THEN fail("TypeError")
        ELSE LET j == PyIndex(Len(c.h[top[i].v]), position[2])
             IN  IF j = 0 THEN fail("IndexError")
                 ELSE [h |-> [c.h EXCEPT ![top[i].v][j] = item],
                       err |-> "ok", motif |-> c.motif]

_access(h, src, position) ==
    LET top == h[src]
        i == PyIndex(Len(top), position[1])
        fail(e) == [item |-> None, err |-> e]
    IN  IF i = 0 THEN fail("IndexError")
        ELSE IF Len(position) = 1 THEN [item |-> top[i], err |-> "ok"]
        ELSE IF ~IsList(top[i]) THEN fail("TypeError")
        ELSE LET j == PyIndex(Len(h[top[i].v]), position[2])
             IN  IF j = 0 THEN fail("IndexError")
                 ELSE [item |-> h[top[i].v][j], err |-> "ok"]

----------------------------------------------------------------------------
(* move single pitches.  A scale is a Python list of integers; _move and   *)
(* _reify write to the list they are given, so each returns the list's     *)
(* contents after the call as well as its result.                          *)

Octaves == 11

Range(s) == {s[i] : i \in 1..Len(s)}

\* list.sort()
Sort(s) == SortSeq(s, LAMBDA a, b : a < b)

\* list.index(x): the 0-based position of the first occurrence
Index(s, x) == (CHOOSE i \in 1..Len(s) : s[i] = x /\ \A j \in 1..(i - 1) : s[j] # x) - 1

_reify(sc) ==
    LET sorted == Sort(sc)
        n == Len(sorted)
    IN  [scale |-> sorted,
         pitches |-> [i \in 1..(Octaves * n) |->
                         sorted[((i - 1) % n) + 1] + ((i - 1) \div n) * 12]]

_move(pitch, sc, step) ==
    IF pitch = None THEN [pitch |-> None, scale |-> sc, err |-> "ok"]
    ELSE IF pitch.v \notin Range(sc) /\ step = 0
    THEN [pitch |-> None, scale |-> sc, err |-> "ok"]
    ELSE LET sc2 == IF pitch.v \notin Range(sc) THEN Sort(Append(sc, pitch.v)) ELSE sc
             i == Index(sc2, pitch.v)
             j == PyIndex(Len(sc2), i + step)
         IN  IF j = 0 THEN [pitch |-> None, scale |-> sc2, err |-> "IndexError"]
             ELSE [pitch |-> Pitch(sc2[j]), scale |-> sc2, err |-> "ok"]

\* [_move(pitch, scale, step) for step in steps], from the i-th step on
\* with the results so far in `done`
RECURSIVE MoveSteps(_, _, _, _, _)
MoveSteps(pitch, sc, steps, i, done) ==
    IF i > Len(steps) THEN [pitches |-> done, scale |-> sc, err |-> "ok"]
    ELSE LET m == _move(pitch, sc, steps[i])
         IN  IF m.err # "ok" THEN [pitches |-> <<>>, scale |-> m.scale, err |-> m.err]
             ELSE MoveSteps(pitch, m.scale, steps, i + 1, Append(done, m.pitch))

_move2(pitch, sc, steps) ==
    IF pitch = None THEN [pitches |-> <<None>>, scale |-> sc, err |-> "ok"]
    ELSE LET steps2 == IF pitch.v \notin Range(sc) /\ 0 \in Range(steps)
                       THEN SelectSeq(steps, LAMBDA s : s # 0)
                       ELSE steps
         IN  IF steps2 = <<>> THEN [pitches |-> <<>>, scale |-> sc, err |-> "ok"]
             ELSE MoveSteps(pitch, sc, steps2, 1, <<>>)

----------------------------------------------------------------------------
(* select pitch motifs                                                     *)

\* Python's truth test `if pitch`: None and the integer 0 are both false.
Truthy(e) == e # None /\ e.v # 0

_is_complete(pitches, hm) ==
    LET pitch_classes == {pitches[i].v % 12 : i \in {j \in 1..Len(pitches) : Truthy(pitches[j])}}
    IN  Range(hm) \subseteq pitch_classes

\* for position in exclude: _modify(pitch_motif, position, None, True)
RECURSIVE ExcludeLoop(_, _, _, _)
ExcludeLoop(h, id, exclude, i) ==
    IF i > Len(exclude) THEN [h |-> h, err |-> "ok"]
    ELSE LET m == _modify(h, id, exclude[i], None, TRUE, 0)
         IN  IF m.err # "ok" THEN [h |-> m.h, err |-> m.err]
             ELSE ExcludeLoop(m.h, id, exclude, i + 1)

\* is_complete(pitch_motif, harmony, exclude); the copy is motif number n
is_complete(h, src, hm, exclude, n) ==
    LET c == IF exclude # <<>> THEN deepcopy(h, src, n) ELSE [h |-> h, motif |-> src]
        x == IF exclude # <<>> THEN ExcludeLoop(c.h, c.motif, exclude, 1)
             ELSE [h |-> h, err |-> "ok"]
    IN  [h |-> x.h, err |-> x.err,
         flag |-> x.err = "ok" /\ _is_complete(_extract(x.h, c.motif), hm)]

----------------------------------------------------------------------------
(* repeat pitch motifs                                                     *)

\* (a remapping that keeps the octave and never corrects the register)
RescaleSameOctave(pitch, mapping) ==
    IF pitch = None THEN pitch
    ELSE IF pitch.v % 12 \notin DOMAIN mapping THEN pitch
    ELSE Pitch(mapping[pitch.v % 12] + (pitch.v \div 12) * 12)

\* The body of rescale's loop for one pitch.
RescalePitch(pitch, mapping) ==
    IF pitch = None THEN pitch
    ELSE LET octave == pitch.v \div 12
             pitch_class == pitch.v % 12
         IN  IF pitch_class \notin DOMAIN mapping THEN pitch
             ELSE LET to == mapping[pitch_class]
                      d == to - pitch_class
                      to2 == IF d >= 6 THEN to - 12
                             ELSE IF d <= -6 THEN to + 12
                             ELSE to
                  IN  Pitch(to2 + octave * 12)

rescale(h, src, mapping, n) ==
    LET pitches == _extract(h, src)
        mapped == [i \in 1..Len(pitches) |-> RescalePitch(pitches[i], mapping)]
    IN  _replace(h, src, mapped, FALSE, n)

\* [_move(pitch, scale, step) for pitch in pitches], from the i-th pitch on:
\* every pitch is moved along the same list object,
\* with the results so far in `done`.
RECURSIVE MovePitches(_, _, _, _, _)
MovePitches(pitches, sc, step, i, done) ==
    IF i > Len(pitches) THEN [pitches |-> done, scale |-> sc, err |-> "ok"]
    ELSE LET m == _move(pitches[i], sc, step)
         IN  IF m.err # "ok" THEN [pitches |-> <<>>, scale |-> m.scale, err |-> m.err]
             ELSE MovePitches(pitches, m.scale, step, i + 1, Append(done, m.pitch))

\* transpose(pitch_motif, scale, step): _reify sorts the caller's list and
\* returns a new list, local to the call.
transpose(h, src, sc, step, n) ==
    LET r == _reify(sc)
        m == MovePitches(_extract(h, src), r.pitches, step, 1, <<>>)
        w == _replace(h, src, m.pitches, FALSE, n)
    IN  IF m.err # "ok" THEN [h |-> h, err |-> m.err, motif |-> src, scale |-> r.scale]
        ELSE [h |-> w.h, err |-> w.err, motif |-> w.motif, scale |-> r.scale]

\* [_move2(pitch, harmony, steps) for pitch in pitches], from the i-th pitch
\* on: lead passes the caller's harmony list itself, not a reified copy.
\* The lists so far are in `done`.
RECURSIVE NearestPitches(_, _, _, _, _)
NearestPitches(pitches, hm, steps, i, done) ==
    IF i > Len(pitches) THEN [lists |-> done, scale |-> hm, err |-> "ok"]
    ELSE LET m == _move2(pitches[i], hm, steps)
         IN  IF m.err # "ok" THEN [lists |-> <<>>, scale |-> m.scale, err |-> m.err]
             ELSE NearestPitches(pitches, m.scale, steps, i + 1, Append(done, m.pitches))

\* <<x>> \o t for every t of ts, in order
RECURSIVE Prepend(_, _)
Prepend(x, ts) ==
    IF ts = <<>> THEN <<>> ELSE <<<<x>> \o Head(ts)>> \o Prepend(x, Tail(ts))

\* and that for every x of xs, in order
RECURSIVE PrependEach(_, _)
PrependEach(xs, ts) ==
    IF xs = <<>> THEN <<>> ELSE Prepend(Head(xs), ts) \o PrependEach(Tail(xs), ts)

\* itertools.product(*lists): the last list varies fastest
RECURSIVE product(_)
product(lists) ==
    IF lists = <<>> THEN << <<>> >>
    ELSE PrependEach(Head(lists), product(Tail(lists)))

\* [_replace(pitch_motif, list(pitch_group)) for pitch_group in pitch_groups]:
\* the i-th motif built is motif number i.
RECURSIVE Motifs(_, _, _, _)
Motifs(h, src, groups, i) ==
    IF i > Len(groups) THEN [h |-> h, err |-> "ok"]
    ELSE LET w == _replace(h, src, groups[i], FALSE, i)
         IN  IF w.err # "ok" THEN [h |-> w.h, err |-> w.err]
             ELSE Motifs(w.h, src, groups, i + 1)

\* lead(pitch_motif, harmony, steps, complete).  The statement under
\* `if complete:` (lines 233-236) is a list display holding a conditional
\* expression without `else` followed by `for`: Python rejects it with
\* SyntaxError (line 234), for the file as a whole.  The other functions
\* are modelled as written; here the error is raised where lead reaches
\* the statement, and no filtering is ever performed.
lead(h, src, hm, steps, complete) ==
    LET near == NearestPitches(_extract(h, src), hm, steps, 1, <<>>)
        groups == product(near.lists)
        built == Motifs(h, src, groups, 1)
    IN  IF near.err # "ok" THEN [h |-> h, err |-> near.err, count |-> 0, harmony |-> near.scale]
        ELSE IF complete THEN [h |-> h, err |-> "SyntaxError", count |-> 0, harmony |-> near.scale]
        ELSE [h |-> built.h, err |-> built.err, count |-> Len(groups), harmony |-> near.scale]

----------------------------------------------------------------------------
(* The caller.  It holds one motif, one reified scale and one pitch-class  *)
(* list, and calls the functions of the module on them.                    *)

MaxCalls == 2
MaxFill == 4
MaxList == 3

Me == Obj(0, 0)

InitMotifs ==
    { <<>>,
      <<S(Pitch(60))>>,
      <<S(Pitch(60)), S(Pitch(64))>>,
      <<S(None), C(<<Pitch(61), Pitch(63)>>)>>,
      <<S(Pitch(0)), C(<<>>), S(Pitch(4))>>,
      <<C(<<Pitch(4), None>>), S(Pitch(7))>> }

InitHarmonies == { <<0, 4, 7>>, <<7, 0, 4>> }

NoCall ==
    [op |-> "none", motif0 |-> <<>>, scale0 |-> <<>>, harmony0 |-> <<>>,
     pitch |-> None, step |-> 0, steps |-> <<>>, pitches |-> <<>>,
     in_place |-> FALSE, position |-> <<>>, item |-> None,
     mapping |-> <<>>, complete |-> FALSE, exclude |-> <<>>, written |-> FALSE]

Init ==
    /\ \E mv \in InitMotifs : heap = Build(mv)
    /\ \E hm \in InitHarmonies :
          /\ harmony = hm
          /\ scale = _reify(hm).pitches
    /\ call = NoCall
    /\ ret = RetNone
    /\ calls = 0

\* Motifs whose pitches cover every pitch class in several octaves.
RescaleMotifs ==
    { <<S(Pitch(p)), C(<<None, Pitch(127 - p)>>)>> : p \in 0..23 }

InitRescale ==
    /\ \E mv \in RescaleMotifs : heap = Build(mv)
    /\ harmony = <<0, 4, 7>>
    /\ scale = _reify(harmony).pitches
    /\ call = NoCall
    /\ ret = RetNone
    /\ calls = 0

\* The record of a call of `op`: the values of the caller's objects as the
\* call starts; the actions add the other arguments.
Called(op) ==
    [NoCall EXCEPT !.op = op, !.motif0 = Value(heap, Me),
                   !.scale0 = scale, !.harmony0 = harmony]

\* The caller is between calls and may make another.
Ready == call.op = "none" /\ calls < MaxCalls

\* The returned motifs' top-level lists.
Returned(r) == {Obj(r.motifs[i], 0) : i \in 1..Len(r.motifs)}

\* The heap without the lists of a returned value.
Mine == Collect(heap, {Me})

Move(pitch, step) ==
    /\ Ready
    /\ LET m == _move(pitch, scale, step)
       IN  /\ scale' = m.scale
           /\ ret' = IF m.err # "ok" THEN Raise(m.err) ELSE RetPitch(m.pitch)
    /\ call' = [Called("move") EXCEPT !.pitch = pitch, !.step = step]
    /\ heap' = Mine
    /\ calls' = calls + 1
    /\ UNCHANGED harmony

Move2(pitch, steps) ==
    /\ Ready
    /\ LET m == _move2(pitch, scale, steps)
       IN  /\ scale' = m.scale
           /\ ret' = IF m.err # "ok" THEN Raise(m.err) ELSE RetPitches(m.pitches)
    /\ call' = [Called("move2") EXCEPT !.pitch = pitch, !.steps = steps]
    /\ heap' = Mine
    /\ calls' = calls + 1
    /\ UNCHANGED harmony

Extract ==
    /\ Ready
    /\ ret' = RetPitches(_extract(heap, Me))
    /\ call' = Called("extract")
    /\ heap' = Mine
    /\ calls' = calls + 1
    /\ UNCHANGED <<scale, harmony>>

Replace(pitches, in_place) ==
    /\ Ready
    /\ LET w == _replace(Mine, Me, pitches, in_place, 1)
       IN  /\ ret' = IF w.err # "ok" THEN Raise(w.err)
                     ELSE IF in_place THEN RetNone
                     ELSE RetMotif(1)
           /\ heap' = Collect(w.h, {Me} \cup Returned(ret'))
    /\ call' = [Called("replace") EXCEPT !.pitches = pitches, !.in_place = in_place]
    /\ calls' = calls + 1
    /\ UNCHANGED <<scale, harmony>>

Modify(position, item, in_place) ==
    /\ Ready
    /\ LET w == _modify(Mine, Me, position, item, in_place, 1)
       IN  /\ ret' = IF w.err # "ok" THEN Raise(w.err)
                     ELSE IF in_place THEN RetNone
                     ELSE RetMotif(1)
           /\ heap' = Collect(w.h, {Me} \cup Returned(ret'))
    /\ call' = [Called("modify") EXCEPT !.position = position, !.item = item,
                                        !.in_place = in_place]
    /\ calls' = calls + 1
    /\ UNCHANGED <<scale, harmony>>

\* _access returns the item itself: for a cluster slot, the caller's own list.
Access(position) ==
    /\ Ready
    /\ LET a == _access(heap, Me, position)
       IN  ret' = IF a.err # "ok" THEN Raise(a.err) ELSE RetPitch(a.item)
    /\ call' = [Called("access") EXCEPT !.position = position]
    /\ heap' = Mine
    /\ calls' = calls + 1
    /\ UNCHANGED <<scale, harmony>>

Rescale(mapping) ==
    /\ Ready
    /\ LET w == rescale(Mine, Me, mapping, 1)
       IN  /\ ret' = IF w.err # "ok" THEN Raise(w.err) ELSE RetMotif(1)
           /\ heap' = Collect(w.h, {Me} \cup Returned(ret'))
    /\ call' = [Called("rescale") EXCEPT !.mapping = mapping]
    /\ calls' = calls + 1
    /\ UNCHANGED <<scale, harmony>>

\* transpose is given the caller's pitch-class list as its scale.
Transpose(step) ==
    /\ Ready
    /\ LET w == transpose(Mine, Me, harmony, step, 1)
       IN  /\ ret' = IF w.err # "ok" THEN Raise(w.err) ELSE RetMotif(1)
           /\ heap' = Collect(w.h, {Me} \cup Returned(ret'))
           /\ harmony' = w.scale
    /\ call' = [Called("transpose") EXCEPT !.step = step]
    /\ calls' = calls + 1
    /\ UNCHANGED scale

Lead(steps, complete) ==
    /\ Ready
    /\ LET w == lead(Mine, Me, harmony, steps, complete)
       IN  /\ ret' = IF w.err # "ok" THEN Raise(w.err)
                     ELSE RetMotifs([i \in 1..w.count |-> i])
           /\ heap' = Collect(w.h, {Me} \cup Returned(ret'))
           /\ harmony' = w.harmony
    /\ call' = [Called("lead") EXCEPT !.steps = steps, !.complete = complete]
    /\ calls' = calls + 1
    /\ UNCHANGED scale

IsComplete(pitches) ==
    /\ Ready
    /\ ret' = RetBool(_is_complete(pitches, harmony))
    /\ call' = [Called("_is_complete") EXCEPT !.pitches = pitches]
    /\ heap' = Mine
    /\ calls' = calls + 1
    /\ UNCHANGED <<scale, harmony>>

IsCompleteMotif(exclude) ==
    /\ Ready
    /\ LET c == is_complete(Mine, Me, harmony, exclude, 1)
       IN  ret' = IF c.err # "ok" THEN Raise(c.err) ELSE RetBool(c.flag)
    /\ call' = [Called("is_complete") EXCEPT !.exclude = exclude]
    /\ heap' = Mine
    /\ calls' = calls + 1
    /\ UNCHANGED <<scale, harmony>>

\* The caller writes into a motif it was returned: result[i] = item or
\* result[i][j] = item.  One write per returned value is modelled.
WriteResult(n, position, item) ==
    /\ call.op # "none"
    /\ ~call.written
    /\ LET w == _modify(heap, Obj(ret.motifs[n], 0), position, item, TRUE, 0)
       IN  /\ w.err = "ok"
           /\ heap' = Collect(w.h, {Me} \cup Returned(ret))
    /\ call' = [call EXCEPT !.written = TRUE]
    /\ UNCHANGED <<scale, harmony, ret, calls>>

\* The caller is done with the value it was returned and lets go of it.
Drop ==
    /\ call.op # "none"
    /\ call' = NoCall
    /\ ret' = RetNone
    /\ heap' = Mine
    /\ UNCHANGED <<scale, harmony, calls>>

----------------------------------------------------------------------------
(* The arguments the caller draws from.                                    *)

\* n pitches, all different, the second a rest
Fill(n) == [i \in 1..n |-> IF i = 2 THEN None ELSE Pitch(70 + i)]

\* in range, negative, and out of range for every motif of InitMotifs
Indices == {-4, -1, 0, 1, 3}
Positions == {<<i>> : i \in Indices} \cup {<<i, j>> : i \in Indices, j \in Indices}
Items == {None, Pitch(72)}

PitchInputs == {None, Pitch(0), Pitch(60), Pitch(61), Pitch(63), Pitch(127)}
StepInputs == {-2, -1, 0, 1, 2}
StepLists == {<<0>>, <<-1, 0, 1>>, <<-1>>, <<1>>, <<-1, 1>>}

RECURSIVE ListsOver(_, _)
ListsOver(vals, n) ==
    IF n = 0 THEN {<<>>}
    ELSE LET shorter == ListsOver(vals, n - 1)
         IN  shorter \cup {Append(s, x) : s \in shorter, x \in vals}

CompletePitches == {None, Pitch(0), Pitch(12), Pitch(4), Pitch(64), Pitch(7)}

\* Every mapping with one entry, and some with two.
Mappings ==
    {<<>>} \cup {(a :> b) : a \in 0..11, b \in 0..11}
           \cup {(a :> b) @@ (((a + 1) % 12) :> ((b + 6) % 12)) : a \in 0..11, b \in 0..11}
SomeMappings == {<<>>, (0 :> 7), (4 :> 11) @@ (1 :> 7)}

Excludes == {<<>>} \cup {<<p>> : p \in Positions} \cup {<<<<0>>, <<1, 0>>>>}

----------------------------------------------------------------------------
(* Specifications                                                          *)

NextMove ==
    \/ \E p \in PitchInputs, s \in StepInputs : Move(p, s)
    \/ \E p \in PitchInputs, ss \in StepLists : Move2(p, ss)
    \/ \E s \in StepInputs : Transpose(s)
    \/ Drop

NextLead ==
    \/ \E ss \in StepLists, c \in BOOLEAN : Lead(ss, c)
    \/ \E p \in PitchInputs, ss \in StepLists : Move2(p, ss)
    \/ Drop

NextComplete ==
    \/ \E ps \in ListsOver(CompletePitches, MaxList) : IsComplete(ps)
    \/ \E ex \in Excludes : IsCompleteMotif(ex)
    \/ Drop

NextRescale ==
    \/ \E m \in Mappings : Rescale(m)
    \/ Drop

NextMotif ==
    \/ Extract
    \/ \E n \in 0..MaxFill, ip \in BOOLEAN : Replace(Fill(n), ip)
    \/ \E ip \in BOOLEAN : Replace(_extract(heap, Me), ip)
    \/ \E p \in Positions, x \in Items, ip \in BOOLEAN : Modify(p, x, ip)
    \/ \E p \in Positions : Access(p)
    \/ \E m \in SomeMappings : Rescale(m)
    \/ \E s \in {-1, 1} : Transpose(s)
    \/ \E ss \in {<<-1>>, <<0>>}, c \in BOOLEAN : Lead(ss, c)
    \/ \E ex \in Excludes : IsCompleteMotif(ex)
    \/ \E n \in 1..Len(ret.motifs), p \in Positions : WriteResult(n, p, Pitch(99))
    \/ Drop

Next == NextMove \/ NextLead \/ NextComplete \/ NextRescale \/ NextMotif

Spec == Init /\ [][Next]_vars
SpecMove == Init /\ [][NextMove]_vars
SpecLead == Init /\ [][NextLead]_vars
SpecComplete == Init /\ [][NextComplete]_vars
SpecMotif == Init /\ [][NextMotif]_vars
SpecRescale == InitRescale /\ [][NextRescale]_vars

----------------------------------------------------------------------------
(* Properties                                                              *)

\* The pitches of a motif value, flattened by _extract.
Flat(mv) == _extract(Build(mv), Me)

\* The top-level list of the n-th motif returned.
Result(n) == Obj(ret.motifs[n], 0)

\* The last call returned and its result is as returned.
Fresh(op) == call.op = op /\ ~call.written

\* C5: for a motif M and a flat sequence P as long as extract(M),
\* replace(M, P) returns a motif with M's slot types and cluster lengths
\* whose extraction is P; in particular replace(M, extract(M)) equals M.
C5_ReplaceKeepsShape ==
    (Fresh("replace") /\ ~call.in_place
        /\ Len(call.pitches) = Len(Flat(call.motif0)))
    => /\ ret.kind = "motif"
       /\ Shape(Value(heap, Result(1))) = Shape(call.motif0)
       /\ _extract(heap, Result(1)) = call.pitches
       /\ (call.pitches = Flat(call.motif0) => Value(heap, Result(1)) = call.motif0)

\* a replace of a motif with a rest, a single slot and a two-pitch cluster
\* by other pitches of the same number
C5_Witness ==
    /\ Fresh("replace") /\ ~call.in_place
    /\ ret.kind = "motif"
    /\ Shape(call.motif0) = <<-1, 2>>
    /\ Len(call.pitches) = 3
    /\ call.pitches # Flat(call.motif0)

\* The calls that are to leave the caller's motif alone.
CopyCall ==
    \/ call.op \in {"replace", "modify"} /\ ~call.in_place
    \/ call.op \in {"rescale", "transpose", "lead"}
    \/ call.op = "is_complete" /\ call.exclude # <<>>

OutOfRange(mv, position) ==
    LET i == PyIndex(Len(mv), position[1])
    IN  \/ i = 0
        \/ /\ Len(position) = 2
           /\ mv[i].k = "list"
           /\ PyIndex(Len(mv[i].items), position[2]) = 0

\* C7: replace with a flat sequence shorter or longer than extract(motif),
\* and modify with an out-of-range slot or cluster index, raise IndexError
\* and return no motif.
C7_ShapeMismatchRaises ==
    /\ (call.op = "replace" /\ Len(call.pitches) # Len(Flat(call.motif0)))
          => ret.kind = "IndexError"
    /\ (call.op = "modify" /\ OutOfRange(call.motif0, call.position))
          => ret.kind = "IndexError"

\* |a - b|
Dist(a, b) == IF a >= b THEN a - b ELSE b - a

\* C4: rescale sends each non-rest pitch p whose pitch class is a key of the
\* mapping to a pitch q with q mod 12 the mapped pitch class and
\* |q - p| <= 6, and leaves rests and pitches with unmapped pitch classes
\* unchanged.
C4_RescaleNearest ==
    Fresh("rescale") =>
       /\ ret.kind = "motif"
       /\ Shape(Value(heap, Result(1))) = Shape(call.motif0)
       /\ LET before == Flat(call.motif0)
              after == _extract(heap, Result(1))
          IN  \A i \in 1..Len(before) :
                 IF before[i] = None THEN after[i] = None
                 ELSE IF before[i].v % 12 \notin DOMAIN call.mapping
                 THEN after[i] = before[i]
                 ELSE /\ after[i].k = "pitch"
                      /\ after[i].v % 12 = call.mapping[before[i].v % 12]
                      /\ Dist(after[i].v, before[i].v) <= 6

\* a rescale that had to leave the octave to stay near: a pitch mapped to a
\* pitch class 6 or more away has moved across an octave boundary
C4_Witness ==
    /\ Fresh("rescale") /\ ret.kind = "motif"
    /\ LET before == Flat(call.motif0)
           after == _extract(heap, Result(1))
       IN  \E i \in 1..Len(before) :
              /\ before[i] # None
              /\ before[i].v % 12 \in DOMAIN call.mapping
              /\ Dist(call.mapping[before[i].v % 12], before[i].v % 12) >= 6
              /\ after[i].v \div 12 # before[i].v \div 12

\* The pitch classes of the non-rest pitches of a sequence.
PitchClasses(pitches) ==
    {pitches[i].v % 12 : i \in {j \in 1..Len(pitches) : pitches[j] # None}}

\* C3: _is_complete is true exactly when the pitch classes of the non-rest
\* pitches are a superset of the harmony; every integer pitch counts,
\* pitch 0 included.
C3_CompleteIffSuperset ==
    call.op = "_is_complete" =>
        (ret.flag <=> Range(call.harmony0) \subseteq PitchClasses(call.pitches))

\* The flat pitch sequences of the motifs returned, in order.
Extracted == [n \in 1..Len(ret.motifs) |-> _extract(heap, Result(n))]

\* The pitch groups lead combines in the last call: the product of the
\* candidate lists its loop over _move2 collects.
Candidates ==
    NearestPitches(Flat(call.motif0), call.harmony0, call.steps, 1, <<>>)

\* C1: with complete=true lead returns the candidates whose non-rest pitch
\* classes are a superset of the harmony's, all of them and only them.
C1_LeadKeepsComplete ==
    (Fresh("lead") /\ call.complete /\ Candidates.err = "ok") =>
       /\ ret.kind = "motifs"
       /\ Extracted = SelectSeq(product(Candidates.lists),
                        LAMBDA g : Range(call.harmony0) \subseteq PitchClasses(g))

\* C2: with complete=false lead returns one motif per element of the
\* product of the voices' candidate lists, each list being
\* _move2(pitch, _reify(harmony), steps), in product order.
C2_LeadIsProductOverReified ==
    (Fresh("lead") /\ ~call.complete) =>
       LET reified == _reify(call.harmony0).pitches
           pitches == Flat(call.motif0)
           lists == [i \in 1..Len(pitches) |->
                        _move2(pitches[i], reified, call.steps).pitches]
       IN  /\ ret.kind = "motifs"
           /\ Extracted = product(lists)
           /\ \A n \in 1..Len(ret.motifs) :
                 Shape(Value(heap, Result(n))) = Shape(call.motif0)

\* C8: with steps {0}, _move2 yields an empty list for a pitch that is not
\* in the scale, and lead returns an empty list, raising nothing, for a
\* motif holding a pitch that is not in the harmony.
C8_NoCandidatesNoMotifs ==
    /\ (call.op = "move2" /\ call.steps = <<0>> /\ call.pitch # None
            /\ call.pitch.v \notin Range(call.scale0))
          => ret = RetPitches(<<>>)
    /\ (Fresh("lead") /\ call.steps = <<0>>
            /\ \E i \in 1..Len(Flat(call.motif0)) :
                  /\ Flat(call.motif0)[i] # None
                  /\ Flat(call.motif0)[i].v \notin Range(call.harmony0))
          => ret = RetMotifs(<<>>)

\* The same with the completeness flag off, which keeps lead away from the
\* statement Python rejects.
C8_UnlessComplete ==
    (Fresh("lead") /\ ~call.complete /\ call.steps = <<0>>
        /\ \E i \in 1..Len(Flat(call.motif0)) :
              /\ Flat(call.motif0)[i] # None
              /\ Flat(call.motif0)[i].v \notin Range(call.harmony0))
    => ret = RetMotifs(<<>>)

\* The scale the caller reified: the caller's pitch-class list is only ever
\* sorted by _reify, so reifying it again gives the same pitches.
Reified == _reify(harmony).pitches

\* C9: _move and _move2 leave the reified scale as it was, so a pitch that
\* was not reified still moves by 0 to a rest, and transpose moves each
\* pitch as _move does along a newly reified scale.
C9_ScaleUntouched ==
    /\ call.op \in {"move", "move2"} => scale = call.scale0
    /\ (call.op = "move" /\ call.step = 0 /\ call.pitch # None
            /\ call.pitch.v \notin Range(Reified))
          => ret = RetPitch(None)
    /\ (Fresh("transpose") /\ ret.kind = "motif") =>
          Extracted[1] = [i \in 1..Len(Flat(call.motif0)) |->
                             _move(Flat(call.motif0)[i],
                                   _reify(call.harmony0).pitches, call.step).pitch]

\* C10: _move returns the pitch `step` positions from the pitch's own
\* position in the scale (the pitch inserted if it was missing), and raises
\* IndexError when that position is before the first or after the last.
C10_MoveWithinBounds ==
    (call.op = "move" /\ call.pitch # None
        /\ (call.pitch.v \in Range(call.scale0) \/ call.step # 0))
    => LET j == Index(scale, call.pitch.v) + call.step
       IN  IF 0 <= j /\ j < Len(scale)
           THEN ret = RetPitch(Pitch(scale[j + 1]))
           ELSE ret.kind = "IndexError"

====
